---- MODULE Spec2Model ----
(***************************************************************************)
(* Model of the two demo applications of React18-Design-Patterns:          *)
(*   - the Routing App  (routing-app/src: main.tsx, routes.tsx, App.tsx,   *)
(*     components/Contacts.tsx), a <BrowserRouter> with a flat route list; *)
(*   - the Pokemon App  (App with createBrowserRouter, components/Root,    *)
(*     components/Pokemons with its dataLoader), a data router.            *)
(* Strings that the code converts (route parameters, contact ids) are      *)
(* sequences of one-character strings, so that the conversions are         *)
(* computed and not assumed.                                               *)
(***************************************************************************)
EXTENDS Integers, Sequences, FiniteSets, TLC

(***************************************************************************)
(* Bounds of the model.                                                    *)
(***************************************************************************)
\* longest contactId string that is enumerated
MaxIdLen == 3
\* most navigations issued in one run of an application
MaxNav == 3
\* longest "results" array of a response body
MaxResults == 2
\* the largest number of times the component that declares the routes runs
MaxBuilds == 2
\* most "/"-separated pieces after "https://pokeapi.co/api/v2/pokemon" in a pokemon.url
MaxPieces == 3
\* most notes in the state of the Notes example
MaxNotes == 3

(***************************************************************************)
(* Strings.                                                                *)
(***************************************************************************)
Digits == <<"0", "1", "2", "3", "4", "5", "6", "7", "8", "9">>

\* the characters contactId strings are built from
IdAlphabet == {"0", "1", "9", ".", "-", "a"}

IsDigit(c) == \E i \in 1..10 : Digits[i] = c

DigitValue(c) == (CHOOSE i \in 1..10 : Digits[i] = c) - 1

RECURSIVE StringsUpTo(_)
StringsUpTo(n) ==
  IF n = 0 THEN {<<>>}
  ELSE LET shorter == StringsUpTo(n - 1)
       IN shorter \cup {Append(s, c) : s \in {t \in shorter : Len(t) = n - 1}, c \in IdAlphabet}

IdStrings == StringsUpTo(MaxIdLen) \ {<<>>}

about == <<"a", "b", "o", "u", "t">>
contact == <<"c", "o", "n", "t", "a", "c", "t">>
contacts == <<"c", "o", "n", "t", "a", "c", "t", "s">>
pokemons == <<"p", "o", "k", "e", "m", "o", "n", "s">>
nope == <<"n", "o", "p", "e">>
extra == <<"e", "x", "t", "r", "a">>

RECURSIVE Pow10(_)
Pow10(n) == IF n = 0 THEN 1 ELSE 10 * Pow10(n - 1)

(***************************************************************************)
(* JavaScript numbers, as far as the code uses them: NaN, or a decimal     *)
(* value kept as an integer number of 1/Scale units (a contactId of at     *)
(* most MaxIdLen characters has fewer than MaxIdLen fractional digits).    *)
(***************************************************************************)
Scale == Pow10(MaxIdLen)

NaN == [nan |-> TRUE, val |-> 0]
Num(n) == [nan |-> FALSE, val |-> n * Scale]

RECURSIVE DigitsValue(_)
\* value of a string of decimal digits
DigitsValue(s) ==
  IF Len(s) = 0 THEN 0
  ELSE 10 * DigitsValue(SubSeq(s, 1, Len(s) - 1)) + DigitValue(s[Len(s)])

AllDigits(s) == \A i \in 1..Len(s) : IsDigit(s[i])

\* an unsigned StrDecimalLiteral "ddd", "ddd.", "ddd.ddd" or ".ddd", in 1/Scale units
UnsignedValue(s) ==
  LET dots == {i \in 1..Len(s) : s[i] = "."}
  IN IF dots = {}
     THEN IF Len(s) > 0 /\ AllDigits(s)
          THEN [nan |-> FALSE, val |-> DigitsValue(s) * Scale]
          ELSE NaN
     ELSE LET d == CHOOSE i \in dots : TRUE
              int == SubSeq(s, 1, d - 1)
              frac == SubSeq(s, d + 1, Len(s))
          IN IF Cardinality(dots) = 1 /\ AllDigits(int) /\ AllDigits(frac)
                /\ Len(int) + Len(frac) > 0
             THEN [nan |-> FALSE,
                   val |-> DigitsValue(int) * Scale
                           + DigitsValue(frac) * (Scale \div Pow10(Len(frac)))]
             ELSE NaN

\* the ToNumber conversion the operators > and == apply to a string operand
ToNumber(s) ==
  IF Len(s) = 0 THEN Num(0)
  ELSE IF s[1] = "-"
       THEN LET u == UnsignedValue(Tail(s))
            IN IF u.nan THEN NaN ELSE [nan |-> FALSE, val |-> 0 - u.val]
       ELSE UnsignedValue(s)

\* x >= y instead of x > y
GreaterOrEqual(x, y) == ~x.nan /\ ~y.nan /\ x.val >= y.val

\* !(x <= y) instead of x > y: true when either is NaN
NotLessOrEqual(x, y) == ~(~x.nan /\ ~y.nan /\ x.val <= y.val)

\* x > y of two numbers (false when either is NaN)
Greater(x, y) == ~x.nan /\ ~y.nan /\ x.val > y.val

\* x == y of two numbers (false when either is NaN)
LooseEq(x, y) == ~x.nan /\ ~y.nan /\ x.val = y.val

RECURSIVE NumberToString(_)
\* the string a template literal makes of a non-negative integer
NumberToString(n) ==
  IF n < 10 THEN <<Digits[n + 1]>>
  ELSE Append(NumberToString(n \div 10), Digits[(n % 10) + 1])

(***************************************************************************)
(* Route tables.  A URL path is the sequence of its non-empty segments     *)
(* ("/" is <<>>, "/contacts/42" is <<contacts, <<"4","2">>>>); a route     *)
(* pattern is a sequence of pattern segments.                              *)
(***************************************************************************)
Lit(s) == [k |-> "static", s |-> s, name |-> ""]
Param(name) == [k |-> "param", s |-> <<>>, name |-> name]
Splat == [k |-> "splat", s |-> <<>>, name |-> "*"]
Empty == [k |-> "empty", s |-> <<>>, name |-> ""]

Route(path, index, element, loader) ==
  [path |-> path, index |-> index, element |-> element, loader |-> loader]

\* the table without the route for "/contacts"
AppRoutesWithoutContacts ==
  [shell |-> "App", root |-> "none",
   children |-> << Route(<<>>, FALSE, "Home", FALSE),
                   Route(<<Lit(about)>>, FALSE, "About", FALSE),
                   Route(<<Lit(contact)>>, FALSE, "Contact", FALSE),
                   Route(<<Lit(contacts), Param("contactId")>>, FALSE, "Contacts", FALSE),
                   Route(<<Splat>>, FALSE, "Error404", FALSE) >>]

\* the table without the wildcard route
AppRoutesWithoutWildcard ==
  [shell |-> "App", root |-> "none",
   children |-> << Route(<<>>, FALSE, "Home", FALSE),
                   Route(<<Lit(about)>>, FALSE, "About", FALSE),
                   Route(<<Lit(contact)>>, FALSE, "Contact", FALSE),
                   Route(<<Lit(contacts)>>, FALSE, "Contacts", FALSE),
                   Route(<<Lit(contacts), Param("contactId")>>, FALSE, "Contacts", FALSE) >>]

\* the table of the Routing App with "/contacts/*" in the place of "/contacts/:contactId"
AppRoutesTwoWildcards ==
  [shell |-> "App", root |-> "none",
   children |-> << Route(<<>>, FALSE, "Home", FALSE),
                   Route(<<Lit(about)>>, FALSE, "About", FALSE),
                   Route(<<Lit(contact)>>, FALSE, "Contact", FALSE),
                   Route(<<Lit(contacts)>>, FALSE, "Contacts", FALSE),
                   Route(<<Lit(contacts), Splat>>, FALSE, "Contacts", FALSE),
                   Route(<<Splat>>, FALSE, "Error404", FALSE) >>]

\* <Routes> of the Routing App: six sibling routes, all rendered inside <App>
AppRoutes ==
  [shell |-> "App", root |-> "none",
   children |-> << Route(<<>>, FALSE, "Home", FALSE),
                   Route(<<Lit(about)>>, FALSE, "About", FALSE),
                   Route(<<Lit(contact)>>, FALSE, "Contact", FALSE),
                   Route(<<Lit(contacts)>>, FALSE, "Contacts", FALSE),
                   Route(<<Lit(contacts), Param("contactId")>>, FALSE, "Contacts", FALSE),
                   Route(<<Splat>>, FALSE, "Error404", FALSE) >>]

\* the table of the Pokemon App without its "*" route
PokemonRoutesWithoutWildcard ==
  [shell |-> "App", root |-> "Root",
   children |-> << Route(<<>>, TRUE, "Home", FALSE),
                   Route(<<Lit(about)>>, FALSE, "About", FALSE),
                   Route(<<Lit(pokemons)>>, FALSE, "Pokemons", TRUE) >>]

\* createRoutesFromElements of the Pokemon App: the route "/" (element Root) and its children
PokemonRoutes ==
  [shell |-> "App", root |-> "Root",
   children |-> << Route(<<>>, TRUE, "Home", FALSE),
                   Route(<<Lit(about)>>, FALSE, "About", FALSE),
                   Route(<<Lit(pokemons)>>, FALSE, "Pokemons", TRUE),
                   Route(<<Splat>>, FALSE, "Error404", FALSE) >>]

(***************************************************************************)
(* The matcher of react-router-dom that <Routes> and createBrowserRouter   *)
(* run on the table: the routes are flattened into branches, the branches  *)
(* are ranked by score (ties keep the declared order) and the first        *)
(* branch whose pattern matches the whole path is the match.               *)
(***************************************************************************)
\* the branches of a table: one per child and, for a table with a root route, the root alone
FlattenRoutes(table) ==
  LET kids == [i \in 1..Len(table.children) |->
                 [path |-> table.children[i].path, index |-> table.children[i].index,
                  element |-> table.children[i].element, loader |-> table.children[i].loader,
                  chain |-> IF table.root = "none" THEN <<table.children[i].element>>
                            ELSE <<table.root, table.children[i].element>>,
                  childIndex |-> i, leaf |-> TRUE]]
  IN IF table.root = "none" THEN kids
     ELSE Append(kids, [path |-> <<>>, index |-> FALSE, element |-> table.root,
                        loader |-> FALSE, chain |-> <<table.root>>,
                        childIndex |-> 0, leaf |-> FALSE])

\* path.split("/") of a pattern: "/" gives two empty segments, "/a/b" gives "", a, b
SplitPattern(path) == IF path = <<>> THEN <<Empty, Empty>> ELSE <<Empty>> \o path

SegmentValue(seg) ==
  CASE seg.k = "param" -> 3
    [] seg.k = "empty" -> 1
    [] seg.k = "static" -> 10
    [] seg.k = "splat" -> 0

RECURSIVE SumSegments(_)
SumSegments(segs) ==
  IF Len(segs) = 0 THEN 0 ELSE SegmentValue(Head(segs)) + SumSegments(Tail(segs))

\* computeScore: the number of segments, -2 for a splat, +2 for an index route, plus each segment's value
ComputeScore(branch) ==
  LET segs == SplitPattern(branch.path)
  IN Len(segs)
     + (IF \E i \in 1..Len(segs) : segs[i].k = "splat" THEN 0 - 2 ELSE 0)
     + (IF branch.index THEN 2 ELSE 0)
     + SumSegments(segs)

\* a comparator that ranks siblings by declared position alone
RanksBeforeDeclared(a, b) == a.leaf /\ b.leaf /\ a.childIndex < b.childIndex

\* the comparator of rankRouteBranches: higher score first; equal scores of siblings by declared index
RanksBefore(a, b) ==
  \/ ComputeScore(a) > ComputeScore(b)
  \/ /\ ComputeScore(a) = ComputeScore(b)
     /\ a.leaf /\ b.leaf
     /\ a.childIndex < b.childIndex

RECURSIVE InsertRanked(_, _)
\* insert branch b into the ranked sequence, after every branch it does not rank before (stable)
InsertRanked(ranked, b) ==
  IF Len(ranked) = 0 THEN <<b>>
  ELSE IF RanksBefore(b, Head(ranked)) THEN <<b>> \o ranked
       ELSE <<Head(ranked)>> \o InsertRanked(Tail(ranked), b)

RECURSIVE SortBranches(_)
SortBranches(branches) ==
  IF Len(branches) = 0 THEN <<>>
  ELSE InsertRanked(SortBranches(SubSeq(branches, 1, Len(branches) - 1)),
                    branches[Len(branches)])

RankRouteBranches(table) == SortBranches(FlattenRoutes(table))

\* matchPath with end = true: a splat takes the rest of the path, a parameter one segment
MatchesPattern(pattern, path) ==
  LET splat == Len(pattern) > 0 /\ pattern[Len(pattern)].k = "splat"
      fixed == IF splat THEN SubSeq(pattern, 1, Len(pattern) - 1) ELSE pattern
  IN /\ IF splat THEN Len(path) >= Len(fixed) ELSE Len(path) = Len(fixed)
     /\ \A i \in 1..Len(fixed) :
          \/ fixed[i].k = "param"
          \/ fixed[i].k = "static" /\ fixed[i].s = path[i]

\* the parameters matchPath binds: each named parameter to its segment, "*" to the rest
BoundParams(pattern, path) ==
  LET names == {pattern[i].name : i \in {j \in 1..Len(pattern) : pattern[j].k = "param"}}
  IN [n \in names |-> path[CHOOSE i \in 1..Len(pattern) : pattern[i].k = "param" /\ pattern[i].name = n]]

SplatRest(pattern, path) ==
  IF Len(pattern) > 0 /\ pattern[Len(pattern)].k = "splat"
  THEN <<SubSeq(path, Len(pattern), Len(path))>>
  ELSE <<>>

NoMatch == [matched |-> FALSE, chain |-> <<>>, element |-> "none", loader |-> FALSE,
            params |-> <<>>, splat |-> <<>>]

RECURSIVE FirstMatch(_, _)
FirstMatch(ranked, path) ==
  IF Len(ranked) = 0 THEN NoMatch
  ELSE IF MatchesPattern(Head(ranked).path, path)
       THEN [matched |-> TRUE, chain |-> Head(ranked).chain, element |-> Head(ranked).element,
             loader |-> Head(ranked).loader,
             params |-> BoundParams(Head(ranked).path, path),
             splat |-> SplatRest(Head(ranked).path, path)]
       ELSE FirstMatch(Tail(ranked), path)

\* the ranked branches of the two tables
AppBranches == RankRouteBranches(AppRoutes)
PokemonBranches == RankRouteBranches(PokemonRoutes)

\* matchRoutes: the first ranked branch that matches the path
MatchRoutes(branches, path) == FirstMatch(branches, path)

(***************************************************************************)
(* The inputs: URL paths, HTTP statuses and response bodies.               *)
(***************************************************************************)
Words == {about, contact, contacts, pokemons, nope}

\* the paths the Routing App is navigated to
Paths ==
  {<<>>} \cup {<<w>> : w \in Words \cup {<<"1">>}}
         \cup {<<contacts, s>> : s \in IdStrings \cup {extra}}
         \cup {<<about, s>> : s \in {<<"1">>, extra}}
         \cup {<<contacts, s, extra>> : s \in {<<"1">>, <<"9">>}}

\* the paths the Pokemon App is navigated to
PokemonPaths == {<<>>, <<about>>, <<pokemons>>, <<nope>>, <<pokemons, extra>>}

Statuses == {200, 404, 500}

\* response.ok
Ok(status) == status >= 200 /\ status <= 299

bulbasaur == <<"b", "u", "l", "b", "a", "s", "a", "u", "r">>
ivysaur == <<"i", "v", "y", "s", "a", "u", "r">>

\* two entries of the PokeAPI list; url is the sequence of the url's "/"-separated pieces
PokeList ==
  { [name |-> bulbasaur, url |-> <<"https:", "", "pokeapi.co", "api", "v2", "pokemon", "1", "">>],
    [name |-> ivysaur, url |-> <<"https:", "", "pokeapi.co", "api", "v2", "pokemon", "2", "">>] }

RECURSIVE ArraysUpTo(_)
ArraysUpTo(n) ==
  IF n = 0 THEN {<<>>}
  ELSE LET shorter == ArraysUpTo(n - 1)
       IN shorter \cup {Append(a, p) : a \in {b \in shorter : Len(b) = n - 1}, p \in PokeList}

\* a JavaScript value a loader can hand over: undefined, or an array of PokeData
Undefined == [k |-> "undefined", v |-> <<>>]
Array(a) == [k |-> "array", v |-> a]
NoData == [k |-> "none", v |-> <<>>]

\* the bodies response.json() can produce: a parse failure, null, an object without
\* "results", an object whose "results" is an array
Bodies ==
  { [k |-> "syntaxError", results |-> Undefined],
    [k |-> "null", results |-> Undefined],
    [k |-> "object", results |-> Undefined] }
  \cup { [k |-> "object", results |-> Array(a)] : a \in ArraysUpTo(MaxResults) }

(***************************************************************************)
(* The contacts of the Routing App.                                        *)
(***************************************************************************)
\* const data: Contact[]
data ==
  << [id |-> 1, name |-> "Carlos Santana", email |-> "carlos.santana@dev.education",
      phone |-> "415-307-3112"],
     [id |-> 2, name |-> "John Smith", email |-> "john.smith@dev.education",
      phone |-> "223-344-5122"],
     [id |-> 3, name |-> "Alexis Nelson", email |-> "alexis.nelson@dev.education",
      phone |-> "664-291-4477"] >>

\* the filter with === in place of ==: a number is never strictly equal to a string
FilterByIdStrict(list, contactId) == <<>>

RECURSIVE FilterById(_, _)
\* contacts.filter(contact => contact.id == contactId)
FilterById(list, contactId) ==
  IF Len(list) = 0 THEN <<>>
  ELSE IF LooseEq(Num(Head(list).id), contactId)
       THEN <<Head(list)>> \o FilterById(Tail(list), contactId)
       ELSE FilterById(Tail(list), contactId)

\* a conversion that drops the fraction, as parseInt does
ContactIdNumberTruncated(params) ==
  IF "contactId" \in DOMAIN params
  THEN LET n == ToNumber(params["contactId"])
       IN IF n.nan THEN n ELSE [nan |-> FALSE, val |-> (n.val \div Scale) * Scale]
  ELSE Num(0)

\* a default of 1 instead of 0
ContactIdNumberDefaultOne(params) ==
  IF "contactId" \in DOMAIN params THEN ToNumber(params["contactId"]) ELSE Num(1)

\* const { contactId = 0 } = useParams(): the bound string converted as > and == convert it,
\* the number 0 when the route binds no contactId
ContactIdNumber(params) ==
  IF "contactId" \in DOMAIN params THEN ToNumber(params["contactId"]) ELSE Num(0)

\* selectedContact: false, or the contacts whose id == contactId when contactId > 0
SelectedContact(params, list) ==
  LET contactId == ContactIdNumber(params)
  IN IF Greater(contactId, Num(0))
     THEN [truthy |-> TRUE, found |-> FilterById(list, contactId)]
     ELSE [truthy |-> FALSE, found |-> <<>>]

\* links that carry the position in the list instead of the id
RenderContactsByIndex(list) ==
  [i \in 1..Len(list) |->
     [key |-> list[i].id, to |-> <<contacts, NumberToString(i - 1)>>, text |-> list[i].name]]

\* renderContacts: one <li> per contact with a link to /contacts/<id>
RenderContacts(list) ==
  [i \in 1..Len(list) |->
     [key |-> list[i].id, to |-> <<contacts, NumberToString(list[i].id)>>, text |-> list[i].name]]

\* array[0]: the first element, undefined for an empty array
ElementZero(array) ==
  IF Len(array) > 0 THEN [defined |-> TRUE, v |-> array[1]] ELSE [defined |-> FALSE, v |-> <<>>]

\* renderSingleContact: destructuring undefined throws a TypeError
RenderSingleContact(c) ==
  IF ~c.defined THEN [view |-> "TypeError", body |-> <<>>]
  ELSE [view |-> "SingleContact", body |-> <<c.v.name, c.v.email, c.v.phone>>]

\* the Contacts component: what one render returns, or the exception it throws
Contacts(params, list) ==
  LET selectedContact == SelectedContact(params, list)
  IN IF selectedContact.truthy
     THEN RenderSingleContact(ElementZero(selectedContact.found))
     ELSE [view |-> "ContactList", body |-> RenderContacts(list)]

\* <App><Routes>...</Routes></App> for a location: the element of the matched route inside
\* the App shell; an exception thrown by a render leaves nothing mounted
RenderAppRoutes(path, list) ==
  LET m == MatchRoutes(AppBranches, path)
      leaf == IF m.element = "Contacts" THEN Contacts(m.params, list)
              ELSE [view |-> m.element, body |-> <<>>]
  IN IF leaf.view = "TypeError"
     THEN [shell |-> "none", view |-> "none", body |-> <<>>, thrown |-> "TypeError"]
     ELSE [shell |-> "App", view |-> leaf.view, body |-> leaf.body, thrown |-> "none"]

(***************************************************************************)
(* The Pokemons component and the render of the Pokemon App.               *)
(***************************************************************************)
\* the last piece instead of the one before it
SpriteSegmentLast(url) == url[Len(url)]

\* pokemon.url.split('/').slice(-2)[0]
SpriteSegment(url) == IF Len(url) >= 2 THEN url[Len(url) - 1] ELSE url[1]

\* the component numbering its entries with index instead of index + 1
PokemonsNumberedFromZero(pokemonsData, navigationState) ==
  IF navigationState = "loading" THEN [view |-> "Loading", body |-> <<>>]
  ELSE IF pokemonsData.k # "array" THEN [view |-> "TypeError", body |-> <<>>]
  ELSE [view |-> "PokemonList",
        body |-> [i \in 1..Len(pokemonsData.v) |->
                    [number |-> i - 1, name |-> pokemonsData.v[i].name,
                     img |-> SpriteSegment(pokemonsData.v[i].url),
                     href |-> pokemonsData.v[i].url]]]

\* the component without the check of navigation.state
PokemonsNoLoadingCheck(pokemonsData, navigationState) ==
  IF pokemonsData.k # "array" THEN [view |-> "TypeError", body |-> <<>>]
  ELSE [view |-> "PokemonList",
        body |-> [i \in 1..Len(pokemonsData.v) |->
                    [number |-> i, name |-> pokemonsData.v[i].name,
                     img |-> SpriteSegment(pokemonsData.v[i].url),
                     href |-> pokemonsData.v[i].url]]]

\* the Pokemons component: the loading heading, one entry per element of the loader data,
\* or the TypeError of calling map on a value that is not an array
Pokemons(pokemonsData, navigationState) ==
  IF navigationState = "loading" THEN [view |-> "Loading", body |-> <<>>]
  ELSE IF pokemonsData.k # "array" THEN [view |-> "TypeError", body |-> <<>>]
  ELSE [view |-> "PokemonList",
        body |-> [i \in 1..Len(pokemonsData.v) |->
                    [number |-> i, name |-> pokemonsData.v[i].name,
                     img |-> SpriteSegment(pokemonsData.v[i].url),
                     href |-> pokemonsData.v[i].url]]]

\* the menu of Root
RootMenu == << <<>>, <<about>>, <<pokemons>> >>

\* <RouterProvider router={router} />: nothing before the first loaders have run, the
\* router's default error element for a loader error or an exception of a render, else
\* Root with the matched leaf in its <Outlet />
RenderRouterProvider(isInitialized, path, navigationState, pokemonsData, error) ==
  LET m == MatchRoutes(PokemonBranches, path)
      leaf == IF m.element = "Pokemons" THEN Pokemons(pokemonsData, navigationState)
              ELSE [view |-> m.element, body |-> <<>>]
  IN IF ~isInitialized
     THEN [shell |-> "none", view |-> "Blank", body |-> <<>>, thrown |-> "none"]
     ELSE IF error.error # "none"
     THEN [shell |-> "none", view |-> "ErrorElement", body |-> <<>>, thrown |-> "none"]
     ELSE IF leaf.view = "TypeError"
     THEN [shell |-> "none", view |-> "ErrorElement", body |-> <<>>, thrown |-> "TypeError"]
     ELSE [shell |-> "Root", view |-> leaf.view, body |-> leaf.body, thrown |-> "none"]

(***************************************************************************)
(* State.                                                                  *)
(***************************************************************************)
VARIABLES
  app,              \* which application runs: "routing" or "pokemon"
  location,         \* the path the router has committed to
  screen,           \* what is displayed: the last render, or the exception that ended it
  contactList,      \* Routing App: the contacts state of the Contacts component
  rejectsUndefined, \* Pokemon App: whether the installed router treats a loader that
                    \* returns undefined as an error (6.4.3 and later) or as data
  initialized,      \* Pokemon App: router state.initialized
  navigation,       \* Pokemon App: router state.navigation
  loaderData,       \* Pokemon App: router state.loaderData of the /pokemons route
  dataNav,          \* Pokemon App: the navigation whose loader produced loaderData, 0 if none
  routeError,       \* Pokemon App: router state.errors
  navSeq,           \* Pokemon App: number of navigations started, the first load included
  calls,            \* Pokemon App: the invocations of dataLoader, in the order they started
  parsedResults,    \* Pokemon App: the "results" of the body that the dataLoader of the latest
                    \* navigation got from response.json(), NoData before that
  lastTarget,       \* the path of the latest navigation issued, the first load included
  built,            \* how many times the component that declares the routes has run, and
                    \* with it how many times the route table (Pokemon App: the router) was
                    \* constructed
  declared,         \* matcher alone: a route table, its sibling routes in some declared order
  rankedBranches,   \* matcher alone: the ranked branches of declared
  probe,            \* matcher alone: the path given to the matcher
  probeMatch,       \* matcher alone: the match of probe
  pokemonUrl,       \* image source alone: a pokemon.url, as its "/"-separated pieces
  imgSrc,           \* image source alone: the src of the <img> rendered for pokemonUrl
  notes,            \* Notes example: the state of useReducer(reducer, initialState)
  dispatched        \* Notes example: the action dispatched last

vars == <<app, location, screen, contactList, rejectsUndefined, initialized, navigation,
          loaderData, dataNav, routeError, navSeq, calls, parsedResults, lastTarget, built,
          declared, rankedBranches, probe, probeMatch, pokemonUrl, imgSrc,
          notes, dispatched>>

\* the variables of the specifications that run one function of the program alone
matcherVars == <<declared, rankedBranches, probe, probeMatch>>
spriteVars == <<pokemonUrl, imgSrc>>
notesVars == <<notes, dispatched>>
unitVars == <<matcherVars, spriteVars, notesVars>>

routerVars == <<rejectsUndefined, initialized, navigation, loaderData, dataNav, routeError,
                navSeq, calls, parsedResults>>

IdleNavigation == [state |-> "idle", location |-> <<>>]
LoadingNavigation(path) == [state |-> "loading", location |-> path]

\* the errors the model tells apart: what dataLoader catches, and the router's own error
\* for a loader that returned undefined
NoError == [error |-> "none", status |-> 0]
FetchRejected == [error |-> "FetchRejected", status |-> 0]
ApiRequestFailed(status) == [error |-> "ApiRequestFailed", status |-> status]
JsonSyntaxError == [error |-> "SyntaxError", status |-> 0]
ResultsOfNull == [error |-> "TypeError", status |-> 0]
LoaderReturnedNothing == [error |-> "LoaderReturnedNothing", status |-> 0]

\* a dataLoader invocation that has issued its fetch: where it stands (pc),
\* what the network gave it (status: -1 none yet, 0 the fetch was rejected; body), what it
\* has passed to console.error (logged), how its promise settled and with what kind of
\* value, and what the router did with that (applied)
NewCall(nav) ==
  [nav |-> nav, pc |-> "fetch", status |-> 0 - 1, body |-> "pending", logged |-> <<>>,
   promise |-> "pending", result |-> "pending", applied |-> "pending"]

\* the matcher is not run alone
MatcherIdle ==
  /\ declared = [shell |-> "none", root |-> "none", children |-> <<>>]
  /\ rankedBranches = <<>>
  /\ probe = <<>>
  /\ probeMatch = NoMatch

\* no image source is computed alone
SpriteIdle ==
  /\ pokemonUrl = <<>>
  /\ imgSrc = [dir |-> <<>>, name |-> "", ext |-> ""]

\* the Notes example does not run
NotesIdle ==
  /\ notes = <<>>
  /\ dispatched = [type |-> "none", payload |-> ""]

\* nothing is run alone
UnitIdle ==
  /\ MatcherIdle
  /\ SpriteIdle
  /\ NotesIdle

(***************************************************************************)
(* Routing App.                                                            *)
(***************************************************************************)
InitRouting ==
  /\ app = "routing"
  /\ location \in Paths
  /\ contactList = data
  /\ screen = RenderAppRoutes(location, data)
  /\ rejectsUndefined = FALSE
  /\ initialized = TRUE
  /\ navigation = IdleNavigation
  /\ loaderData = NoData
  /\ dataNav = 0
  /\ routeError = NoError
  /\ navSeq = 0
  /\ calls = <<>>
  /\ parsedResults = NoData
  /\ lastTarget = location
  /\ built = 1
  /\ UnitIdle

\* a render that calls setContacts and drops the first contact
RoutingGoToDropping(path) ==
  /\ location' = path
  /\ contactList' = IF Len(contactList) > 1 THEN Tail(contactList) ELSE contactList
  /\ screen' = RenderAppRoutes(path, contactList')
  /\ lastTarget' = path
  /\ UNCHANGED <<unitVars, app, built, routerVars>>

\* the location changes to path and <Routes> renders the match; a freshly mounted Contacts
\* starts from useState(data)
RoutingGoTo(path) ==
  /\ location' = path
  /\ contactList' = IF screen.view \in {"ContactList", "SingleContact"} THEN contactList ELSE data
  /\ screen' = RenderAppRoutes(path, contactList')
  /\ lastTarget' = path
  /\ UNCHANGED <<unitVars, app, built, routerVars>>

\* the user enters a URL or moves in the history
RoutingNavigate ==
  /\ app = "routing"
  /\ \E path \in Paths : RoutingGoTo(path)

\* the user activates one of the <Link>s of the contact list
ClickContactLink ==
  /\ app = "routing"
  /\ screen.view = "ContactList"
  /\ \E i \in 1..Len(screen.body) : RoutingGoTo(screen.body[i].to)

(***************************************************************************)
(* Pokemon App: the data router and dataLoader.                            *)
(***************************************************************************)
InitPokemon ==
  /\ app = "pokemon"
  /\ location \in PokemonPaths
  /\ contactList = <<>>
  /\ rejectsUndefined \in BOOLEAN
  /\ navSeq = 1
  /\ loaderData = NoData
  /\ dataNav = 0
  /\ routeError = NoError
  /\ LET m == MatchRoutes(PokemonBranches, location)
     IN /\ initialized = ~m.loader
        /\ navigation = IF m.loader THEN LoadingNavigation(location) ELSE IdleNavigation
        /\ calls = IF m.loader THEN <<NewCall(1)>> ELSE <<>>
  /\ screen = RenderRouterProvider(initialized, location, navigation.state, loaderData, routeError)
  /\ parsedResults = NoData
  /\ lastTarget = location
  /\ built = 1
  /\ UnitIdle

\* a navigation that starts the loader without entering the "loading" state
PokemonNavigateNoPending ==
  /\ app = "pokemon"
  /\ navSeq < MaxNav
  /\ \E path \in PokemonPaths :
       LET m == MatchRoutes(PokemonBranches, path)
       IN /\ navSeq' = navSeq + 1
          /\ lastTarget' = path
          /\ parsedResults' = NoData
          /\ IF m.loader
             THEN /\ calls' = Append(calls, NewCall(navSeq'))
                  /\ UNCHANGED <<location, initialized, navigation, loaderData, dataNav,
                                 routeError>>
             ELSE /\ navigation' = IdleNavigation
                  /\ location' = path
                  /\ initialized' = TRUE
                  /\ loaderData' = NoData
                  /\ dataNav' = 0
                  /\ routeError' = NoError
                  /\ UNCHANGED calls
  /\ screen' = IF location' = location /\ navigation'.state = "loading"
                   /\ screen.thrown # "none"
                THEN screen
                ELSE RenderRouterProvider(initialized', location', navigation'.state,
                                          loaderData', routeError')
  /\ UNCHANGED <<unitVars, app, contactList, rejectsUndefined, built>>

\* a navigation that reuses the loader data it already holds for the route instead of
\* calling the loader
PokemonNavigateCached ==
  /\ app = "pokemon"
  /\ navSeq < MaxNav
  /\ \E path \in PokemonPaths :
       LET m == MatchRoutes(PokemonBranches, path)
       IN /\ navSeq' = navSeq + 1
          /\ lastTarget' = path
          /\ parsedResults' = NoData
          /\ IF m.loader /\ loaderData = NoData
             THEN /\ navigation' = LoadingNavigation(path)
                  /\ calls' = Append(calls, NewCall(navSeq'))
                  /\ UNCHANGED <<location, initialized, loaderData, dataNav, routeError>>
             ELSE /\ navigation' = IdleNavigation
                  /\ location' = path
                  /\ initialized' = TRUE
                  /\ loaderData' = IF m.loader THEN loaderData ELSE NoData
                  /\ dataNav' = IF m.loader THEN dataNav ELSE 0
                  /\ routeError' = NoError
                  /\ UNCHANGED calls
  /\ screen' = IF location' = location /\ navigation'.state = "loading"
                   /\ screen.thrown # "none"
                THEN screen
                ELSE RenderRouterProvider(initialized', location', navigation'.state,
                                          loaderData', routeError')
  /\ UNCHANGED <<unitVars, app, contactList, rejectsUndefined, built>>

\* router.navigate: the pending navigation is aborted; a match with a loader starts the
\* loader and the navigation stays "loading", a match without one is committed at once.
\* The router's error boundary keeps showing an exception of a render until the location
\* changes.
PokemonNavigate ==
  /\ app = "pokemon"
  /\ navSeq < MaxNav
  /\ \E path \in PokemonPaths :
       LET m == MatchRoutes(PokemonBranches, path)
       IN /\ navSeq' = navSeq + 1
          /\ lastTarget' = path
          /\ parsedResults' = NoData
          /\ IF m.loader
             THEN /\ navigation' = LoadingNavigation(path)
                  /\ calls' = Append(calls, NewCall(navSeq'))
                  /\ UNCHANGED <<location, initialized, loaderData, dataNav, routeError>>
             ELSE /\ navigation' = IdleNavigation
                  /\ location' = path
                  /\ initialized' = TRUE
                  /\ loaderData' = NoData
                  /\ dataNav' = 0
                  /\ routeError' = NoError
                  /\ UNCHANGED calls
  /\ screen' = IF location' = location /\ navigation'.state = "loading"
                   /\ screen.thrown # "none"
                THEN screen
                ELSE RenderRouterProvider(initialized', location', navigation'.state,
                                          loaderData', routeError')
  /\ UNCHANGED <<unitVars, app, contactList, rejectsUndefined, built>>

\* a router that commits the result of every loader, that of a superseded navigation too
LoaderFulfilledUnguarded(i, call, value) ==
  /\ location' = navigation.location
  /\ initialized' = TRUE
  /\ navigation' = IdleNavigation
  /\ routeError' = NoError
  /\ loaderData' = value
  /\ dataNav' = call.nav
  /\ calls' = [calls EXCEPT ![i] = [call EXCEPT !.applied = "committed"]]
  /\ screen' = RenderRouterProvider(TRUE, navigation.location, "idle", loaderData',
                                    routeError')
  /\ UNCHANGED <<unitVars, app, contactList, rejectsUndefined, navSeq, lastTarget, built>>

\* the promise of invocation i fulfils with value, call being the invocation's final
\* record: the router drops the result of a navigation that was superseded, reports
\* undefined as an error if it is built to, and else commits the navigation with the value
\* as the route's loader data
LoaderFulfilled(i, call, value) ==
  /\ IF call.nav # navSeq
     THEN /\ calls' = [calls EXCEPT ![i] = [call EXCEPT !.applied = "discarded"]]
          /\ UNCHANGED <<location, initialized, navigation, loaderData, dataNav, routeError,
                         screen>>
     ELSE /\ location' = navigation.location
          /\ initialized' = TRUE
          /\ navigation' = IdleNavigation
          /\ IF value = Undefined /\ rejectsUndefined
             THEN /\ routeError' = LoaderReturnedNothing
                  /\ loaderData' = NoData
                  /\ dataNav' = 0
                  /\ calls' = [calls EXCEPT ![i] = [call EXCEPT !.applied = "refused"]]
             ELSE /\ routeError' = NoError
                  /\ loaderData' = value
                  /\ dataNav' = call.nav
                  /\ calls' = [calls EXCEPT ![i] = [call EXCEPT !.applied = "committed"]]
          /\ screen' = RenderRouterProvider(TRUE, navigation.location, "idle", loaderData',
                                            routeError')
  /\ UNCHANGED <<unitVars, app, contactList, rejectsUndefined, navSeq, lastTarget, built>>

\* a catch block that does not log
CaughtSilently(call, error) ==
  [call EXCEPT !.pc = "done", !.promise = "fulfilled", !.result = "undefined"]

\* a catch block that logs and throws the error again
CaughtRethrown(call, error) ==
  [call EXCEPT !.pc = "done", !.logged = Append(@, error), !.promise = "rejected",
               !.result = "undefined"]

\* the catch block of dataLoader: one console.error with the caught error, and the function
\* ends without a return value, so its promise fulfils with undefined
Caught(call, error) ==
  [call EXCEPT !.pc = "done", !.logged = Append(@, error), !.promise = "fulfilled",
               !.result = "undefined"]

\* the loader hands over the "results" without their first element
ReturnValueSliced(body) ==
  IF body.results.k = "array" /\ Len(body.results.v) > 0
  THEN Array(Tail(body.results.v))
  ELSE body.results

\* data.results of return data.results: undefined for an object without "results"
ReturnValue(body) == body.results

\* return data.results: the promise fulfils with the value, nothing is logged
Returned(call, value) ==
  [call EXCEPT !.pc = "done", !.promise = "fulfilled", !.result = value.k]

\* await fetch(...) settles: a network failure or a response that is not ok goes to the
\* catch block, an ok response goes on to response.json()
FetchSettles ==
  /\ app = "pokemon"
  /\ UNCHANGED parsedResults
  /\ \E i \in 1..Len(calls) :
       /\ calls[i].pc = "fetch"
       /\ \/ LoaderFulfilled(i, Caught([calls[i] EXCEPT !.status = 0], FetchRejected),
                              Undefined)
          \/ \E status \in Statuses :
               IF Ok(status)
               THEN /\ calls' = [calls EXCEPT ![i].pc = "json", ![i].status = status]
                    /\ UNCHANGED <<unitVars, app, location, screen, contactList, rejectsUndefined,
                                   initialized, navigation, loaderData, dataNav, routeError,
                                   navSeq, lastTarget, built>>
               ELSE LoaderFulfilled(i, Caught([calls[i] EXCEPT !.status = status],
                                              ApiRequestFailed(status)), Undefined)

\* await response.json() settles: a body that does not parse, and null (reading .results
\* of null throws), go to the catch block; an object returns its .results
JsonSettles ==
  /\ app = "pokemon"
  /\ \E i \in 1..Len(calls) :
       /\ calls[i].pc = "json"
       /\ \E body \in Bodies :
            LET call == [calls[i] EXCEPT !.body = body.k]
            IN /\ parsedResults' = IF calls[i].nav = navSeq THEN body.results
                                   ELSE parsedResults
               /\ CASE body.k = "object" ->
                         LoaderFulfilled(i, Returned(call, ReturnValue(body)),
                                         ReturnValue(body))
                    [] body.k = "syntaxError" ->
                         LoaderFulfilled(i, Caught(call, JsonSyntaxError), Undefined)
                    [] body.k = "null" ->
                         LoaderFulfilled(i, Caught(call, ResultsOfNull), Undefined)

Init == InitRouting \/ InitPokemon

Next ==
  \/ RoutingNavigate
  \/ ClickContactLink
  \/ PokemonNavigate
  \/ FetchSettles
  \/ JsonSettles

Spec == Init /\ [][Next]_vars

\* React calls the component that declares the routes once more (a re-render caused by its
\* parent, the second of the two renders of StrictMode). AppRoutes returns the same <Routes>
\* again and nothing on display changes. App calls createBrowserRouter again: the new router
\* starts at the URL, which is the committed location, with no loader data, no error and no
\* pending navigation of the old router, and runs the loader of the match; the invocations
\* of the old router are no longer those of the latest navigation.
AppRenders ==
  /\ built < MaxBuilds
  /\ built' = built + 1
  /\ IF app = "routing"
     THEN UNCHANGED <<unitVars, app, location, screen, contactList, routerVars, lastTarget>>
     ELSE LET m == MatchRoutes(PokemonBranches, location)
          IN /\ navSeq' = navSeq + 1
             /\ lastTarget' = location
             /\ parsedResults' = NoData
             /\ initialized' = ~m.loader
             /\ navigation' = IF m.loader THEN LoadingNavigation(location) ELSE IdleNavigation
             /\ calls' = IF m.loader THEN Append(calls, NewCall(navSeq')) ELSE calls
             /\ loaderData' = NoData
             /\ dataNav' = 0
             /\ routeError' = NoError
             /\ screen' = RenderRouterProvider(initialized', location, navigation'.state,
                                               NoData, NoError)
             /\ UNCHANGED <<unitVars, app, location, contactList, rejectsUndefined>>

NextRerender == Next \/ AppRenders

\* the program in an environment that renders the declaring component more than once
SpecRerender == Init /\ [][NextRerender]_vars

(***************************************************************************)
(* The matcher alone, on the two tables with their sibling routes declared *)
(* in every order.                                                         *)
(***************************************************************************)
programVars == <<app, location, screen, contactList, routerVars, lastTarget, built>>

\* no application runs
ProgramIdle ==
  /\ location = <<>>
  /\ screen = [shell |-> "none", view |-> "none", body |-> <<>>, thrown |-> "none"]
  /\ contactList = <<>>
  /\ rejectsUndefined = FALSE
  /\ initialized = FALSE
  /\ navigation = IdleNavigation
  /\ loaderData = NoData
  /\ dataNav = 0
  /\ routeError = NoError
  /\ navSeq = 0
  /\ calls = <<>>
  /\ parsedResults = NoData
  /\ lastTarget = <<>>
  /\ built = 0

\* the table with its sibling routes declared in every order
Orders(table) ==
  { [table EXCEPT !.children = [i \in 1..Len(table.children) |-> table.children[p[i]]]] :
      p \in Permutations(1..Len(table.children)) }

\* the paths given to the matcher
ProbePaths ==
  { <<>>, <<about>>, <<contact>>, <<contacts>>, <<pokemons>>, <<nope>>,
    <<contacts, <<"5">>>>, <<contacts, <<"1">>, extra>>, <<about, extra>>,
    <<pokemons, extra>> }

InitMatcher ==
  /\ app = "matcher"
  /\ ProgramIdle
  /\ SpriteIdle
  /\ NotesIdle
  /\ declared \in Orders(AppRoutes) \cup Orders(PokemonRoutes)
  /\ rankedBranches = RankRouteBranches(declared)
  /\ probe \in ProbePaths
  /\ probeMatch = MatchRoutes(rankedBranches, probe)

\* the router matches another path against the table it ranked at construction
MatchPath ==
  /\ app = "matcher"
  /\ \E path \in ProbePaths :
       /\ probe' = path
       /\ probeMatch' = MatchRoutes(rankedBranches, path)
  /\ UNCHANGED <<programVars, declared, rankedBranches, spriteVars, notesVars>>

NextMatcher == MatchPath

SpecMatcher == InitMatcher /\ [][NextMatcher]_vars

(***************************************************************************)
(* The image source of Pokemons alone, on urls with and without a trailing *)
(* slash.                                                                  *)
(***************************************************************************)
\* imgUrl, as its "/"-separated pieces (it ends with a slash)
imgUrl ==
  <<"https:", "", "raw.githubusercontent.com", "PokeAPI", "sprites", "master", "sprites",
    "pokemon", "">>

\* `${imgUrl}/${pokemon.url.split('/').slice(-2)[0]}.png`
ImgSrc(pieces) == [dir |-> imgUrl, name |-> SpriteSegment(pieces), ext |-> ".png"]

RECURSIVE PiecesUpTo(_)
\* the sequences of at most n pieces
PiecesUpTo(n) ==
  IF n = 0 THEN {<<>>}
  ELSE LET shorter == PiecesUpTo(n - 1)
       IN shorter \cup {Append(t, p) : t \in {u \in shorter : Len(u) = n - 1},
                                        p \in {"", "1", "25", "pokemon", "a"}}

\* the urls: https://pokeapi.co/api/v2/pokemon followed by at least one more piece
Urls ==
  { <<"https:", "", "pokeapi.co", "api", "v2", "pokemon">> \o t :
      t \in PiecesUpTo(MaxPieces) \ {<<>>} }

InitSprite ==
  /\ app = "sprite"
  /\ ProgramIdle
  /\ MatcherIdle
  /\ NotesIdle
  /\ pokemonUrl \in Urls
  /\ imgSrc = ImgSrc(pokemonUrl)

\* Pokemons renders the <img> of another element
RenderImg ==
  /\ app = "sprite"
  /\ \E u \in Urls :
       /\ pokemonUrl' = u
       /\ imgSrc' = ImgSrc(u)
  /\ UNCHANGED <<programVars, matcherVars, notesVars>>

NextSprite == RenderImg

SpecSprite == InitSprite /\ [][NextSprite]_vars

(***************************************************************************)
(* The Notes example of the tutorial: useReducer(reducer, initialState).   *)
(***************************************************************************)
initialState == <<>>

actionTypes == [ADD |-> "ADD", DELETE |-> "DELETE", UPDATE |-> "UPDATE"]

\* the values Math.random().toString() gives, and the contents typed
RandomIds == {"0.1", "0.2"}
Contents == {"milk", "eggs"}
NoteValues == [id : RandomIds, content : Contents]

\* the actions: the three types of actionTypes with their payloads, and a type that the
\* reducer has no case for
Actions ==
  {[type |-> actionTypes.ADD, payload |-> c] : c \in Contents}
    \cup {[type |-> actionTypes.DELETE, payload |-> [id |-> i]] : i \in RandomIds}
    \cup {[type |-> actionTypes.UPDATE, payload |-> n] : n \in NoteValues}
    \cup {[type |-> "RESET", payload |-> ""]}

\* a DELETE that keeps the notes with the id and removes the others
reducerDeleteInverted(state, action, random) ==
  CASE action.type = actionTypes.ADD ->
         Append(state, [id |-> random, content |-> action.payload])
    [] action.type = actionTypes.DELETE ->
         SelectSeq(state, LAMBDA note : note.id = action.payload.id)
    [] action.type = actionTypes.UPDATE ->
         [i \in 1..Len(state) |->
            IF state[i].id = action.payload.id THEN action.payload ELSE state[i]]
    [] OTHER -> state

\* reducer, random being the value of Math.random().toString() in the ADD case
reducer(state, action, random) ==
  CASE action.type = actionTypes.ADD ->
         Append(state, [id |-> random, content |-> action.payload])
    [] action.type = actionTypes.DELETE ->
         SelectSeq(state, LAMBDA note : note.id # action.payload.id)
    [] action.type = actionTypes.UPDATE ->
         [i \in 1..Len(state) |->
            IF state[i].id = action.payload.id THEN action.payload ELSE state[i]]
    [] OTHER -> state

InitNotes ==
  /\ app = "notes"
  /\ ProgramIdle
  /\ MatcherIdle
  /\ SpriteIdle
  /\ notes = initialState
  /\ dispatched = [type |-> "none", payload |-> ""]

\* dispatch(action): the state becomes reducer(state, action)
Dispatch ==
  /\ app = "notes"
  /\ \E action \in Actions, random \in RandomIds :
       /\ action.type = actionTypes.ADD => Len(notes) < MaxNotes
       /\ notes' = reducer(notes, action, random)
       /\ dispatched' = action
  /\ UNCHANGED <<programVars, matcherVars, spriteVars>>

NextNotes == Dispatch

SpecNotes == InitNotes /\ [][NextNotes]_vars

(***************************************************************************)
(* Properties.                                                             *)
(***************************************************************************)
\* the contactId of the location is a positive number that is the id of no contact
UnknownContactId ==
  /\ app = "routing"
  /\ Len(location) = 2
  /\ location[1] = contacts
  /\ Greater(ToNumber(location[2]), Num(0))
  /\ \A k \in 1..Len(data) : ~LooseEq(Num(data[k].id), ToNumber(location[2]))

\* C1: for a contactId that is a positive number and the id of no contact, the Contacts
\* view renders a "not found within list" state and no exception is thrown by the render.
C1_UnknownIdRendersNotFound ==
  UnknownContactId => screen.thrown = "none" /\ screen.view = "ContactNotFound"

\* invocation i was handed to the router for the navigation that is still the latest one
Current(i) == calls[i].nav = navSeq /\ calls[i].pc = "done"

\* the fetch of invocation i was rejected or answered with a status that is not 2xx
FetchFailed(i) == calls[i].status = 0 \/ (calls[i].status > 0 /\ ~Ok(calls[i].status))

\* C2: after a load whose fetch fails (non-2xx or network failure) the Pokemons view
\* renders with zero list items, not an error view and not a crash.
C2_FailedLoadRendersEmptyList ==
  \A i \in 1..Len(calls) :
    Current(i) /\ FetchFailed(i)
      => screen.view = "PokemonList" /\ screen.body = <<>> /\ screen.thrown = "none"

\* C3: every invocation of dataLoader whose fetch rejects, whose response is not 2xx or
\* whose body does not parse logs exactly one error and its promise fulfils; a successful
\* invocation logs nothing; no invocation's promise rejects.
C3_LoaderContainsFailures ==
  \A i \in 1..Len(calls) :
    /\ calls[i].promise \in {"pending", "fulfilled"}
    /\ calls[i].pc # "done" => calls[i].promise = "pending" /\ calls[i].logged = <<>>
    /\ calls[i].pc = "done" =>
         /\ calls[i].promise = "fulfilled"
         /\ FetchFailed(i) \/ calls[i].body = "syntaxError" => Len(calls[i].logged) = 1
         /\ Ok(calls[i].status) /\ calls[i].body = "object" => calls[i].logged = <<>>

\* a failed and a successful invocation have both settled
C3_Witness ==
  /\ \E i \in 1..Len(calls) : calls[i].pc = "done" /\ calls[i].body = "syntaxError"
  /\ \E i \in 1..Len(calls) : calls[i].pc = "done" /\ FetchFailed(i)
  /\ \E i \in 1..Len(calls) : calls[i].pc = "done" /\ calls[i].body = "object"

\* C4: the result of a loader whose navigation was superseded is discarded: loader data is
\* only ever held for the active /pokemons route, and a rendered list is the result of the
\* most recent navigation.
C4_StaleResultDiscarded ==
  app = "pokemon" =>
    /\ loaderData # NoData => location = <<pokemons>> /\ dataNav \in 1..navSeq
    /\ screen.view = "PokemonList" => dataNav = navSeq /\ loaderData.k = "array"
    /\ \A i \in 1..Len(calls) : calls[i].applied = "discarded" => dataNav # calls[i].nav

\* a superseded loader has delivered an array, and the list of the latest navigation is shown
C4_Witness ==
  /\ \E i \in 1..Len(calls) : calls[i].applied = "discarded" /\ calls[i].result = "array"
  /\ screen.view = "PokemonList"
  /\ Len(screen.body) > 0

\* C5: for /contacts/<id> the matcher selects the Contacts leaf with contactId bound to the
\* string <id>, and for every id of the contacts list the view shows exactly that contact's
\* name, email and phone.
C5_ContactSelected ==
  app = "routing" /\ Len(location) = 2 /\ location[1] = contacts =>
    /\ MatchRoutes(AppBranches, location).chain = <<"Contacts">>
    /\ MatchRoutes(AppBranches, location).params = [contactId |-> location[2]]
    /\ \A k \in 1..Len(data) :
         location[2] = NumberToString(data[k].id) =>
           screen = [shell |-> "App", view |-> "SingleContact", thrown |-> "none",
                     body |-> <<data[k].name, data[k].email, data[k].phone>>]

\* the contact with id 3 is displayed
C5_Witness ==
  /\ app = "routing"
  /\ location = <<contacts, <<"3">>>>
  /\ screen.view = "SingleContact"

\* the static paths of the Routing App and the leaf each is declared with
StaticRoutes ==
  { <<<<>>, "Home">>, <<<<about>>, "About">>, <<<<contact>>, "Contact">>,
    <<<<contacts>>, "Contacts">> }

\* C6: for "/", "/about", "/contact" and "/contacts" the matcher returns exactly one leaf
\* (Home, About, Contact, Contacts) and binds no parameters.
C6_StaticPaths ==
  app = "routing" =>
    \A r \in StaticRoutes :
      location = r[1] =>
        /\ MatchRoutes(AppBranches, location).matched
        /\ MatchRoutes(AppBranches, location).chain = <<r[2]>>
        /\ DOMAIN MatchRoutes(AppBranches, location).params = {}
        /\ MatchRoutes(AppBranches, location).splat = <<>>
        /\ screen.view = IF r[2] = "Contacts" THEN "ContactList" ELSE r[2]

\* the Routing App is at /contacts
C6_Witness == app = "routing" /\ location = <<contacts>> /\ screen.view = "ContactList"

\* the paths a literal or parameter route is declared for
DeclaredRouting(path) ==
  \/ Len(path) = 0
  \/ Len(path) = 1 /\ path[1] \in {about, contact, contacts}
  \/ Len(path) = 2 /\ path[1] = contacts

DeclaredPokemon(path) ==
  \/ Len(path) = 0
  \/ Len(path) = 1 /\ path[1] \in {about, pokemons}

\* C7: in both route tables a path that no literal or parameter route is declared for is
\* matched by the wildcard entry and shows Error404, and no exception is raised.
C7_WildcardFallback ==
  /\ app = "routing" /\ ~DeclaredRouting(location) =>
       /\ MatchRoutes(AppBranches, location).chain = <<"Error404">>
       /\ screen.view = "Error404"
       /\ screen.thrown = "none"
  /\ app = "pokemon" /\ ~DeclaredPokemon(location) =>
       /\ MatchRoutes(PokemonBranches, location).chain = <<"Root", "Error404">>
       /\ screen.view = "Error404"
       /\ screen.thrown = "none"

\* the Routing App is at /contacts/1/extra
C7_Witness ==
  /\ app = "routing"
  /\ location = <<contacts, <<"1">>, extra>>
  /\ screen.view = "Error404"

\* C8: in either app, after any navigations and loader outcomes, no exception is thrown in
\* the render of the active view.
C8_NoRenderException == screen.thrown = "none"

\* the loader-result state of the /pokemons route
LoaderState ==
  IF navigation.state = "loading" THEN "pending"
  ELSE IF routeError # NoError THEN "error"
  ELSE IF loaderData # NoData THEN "success"
  ELSE "idle"

SomeCallSettles ==
  \E i \in 1..Len(calls) : calls[i].pc # "done" /\ calls'[i].pc = "done"

\* C10: the loader-result state of /pokemons moves to pending exactly when a navigation to
\* the route is issued, moves from pending to success or error only when the loader
\* settles, and otherwise changes only by a new navigation.
C10_LoaderLifecycle ==
  [][ app = "pokemon" =>
        /\ LoaderState' # LoaderState /\ navSeq' = navSeq =>
             /\ LoaderState = "pending"
             /\ LoaderState' \in {"success", "error"}
             /\ SomeCallSettles
        /\ navSeq' # navSeq =>
             /\ navSeq' = navSeq + 1
             /\ LoaderState' = IF Len(calls') > Len(calls) THEN "pending" ELSE "idle"
        /\ LoaderState' = "pending" /\ LoaderState # "pending" => navSeq' = navSeq + 1
        /\ LoaderState \in {"success", "error"} /\ navSeq' = navSeq =>
             UNCHANGED <<navigation, loaderData, routeError, location>>
    ]_vars

\* a navigation from another route to /pokemons has ended in success
C10_Witness ==
  /\ app = "pokemon"
  /\ LoaderState = "success"
  /\ navSeq > 1
  /\ dataNav = navSeq
  /\ \E i \in 1..Len(calls) : calls[i].applied = "discarded"

\* C11: in every state in which the /pokemons loader is pending, on the first load of
\* /pokemons and on a navigation to it from another route alike, the leaf slot shows the
\* "Loading..." heading of Pokemons, and never the list.
C11_LoadingShownWhilePending ==
  app = "pokemon" /\ LoaderState = "pending" =>
    /\ screen.shell = "Root"
    /\ screen.view = "Loading"

\* C12: while the loader is pending, a step in which the loader of the latest navigation
\* does not settle and no navigation is issued leaves the route pending with the
\* "Loading..." heading on display.
C12_PendingForeverShowingFallback ==
  [][ /\ app = "pokemon"
      /\ LoaderState = "pending"
      /\ navSeq' = navSeq
      /\ ~(\E i \in 1..Len(calls) :
             calls[i].nav = navSeq /\ calls[i].pc # "done" /\ calls'[i].pc = "done")
      => /\ LoaderState' = "pending"
         /\ screen'.view = "Loading"
    ]_vars

\* C13: at "/contacts" no contactId is bound, the Contacts view takes the default 0, selects
\* no contact and renders the whole list, one link per contact record.
C13_AbsentIdRendersList ==
  app = "routing" /\ location = <<contacts>> =>
    LET params == MatchRoutes(AppBranches, location).params
    IN /\ "contactId" \notin DOMAIN params
       /\ ContactIdNumber(params) = Num(0)
       /\ screen.shell = "App"
       /\ screen.view = "ContactList"
       /\ screen.thrown = "none"
       /\ Len(screen.body) = Len(data)
       /\ \A k \in 1..Len(data) :
            /\ screen.body[k].to = <<contacts, NumberToString(data[k].id)>>
            /\ screen.body[k].text = data[k].name

\* the list of three links is displayed at /contacts
C13_Witness ==
  /\ app = "routing"
  /\ location = <<contacts>>
  /\ Len(screen.body) = 3

\* C14: when the contact id is missing the Contacts view takes it as 0, filters the
\* contacts for id 0, a filter that matches no record, and renders the list view.
C14_MissingIdFiltersForZero ==
  app = "routing" /\ location = <<contacts>> =>
    LET selectedContact == SelectedContact(MatchRoutes(AppBranches, location).params,
                                           contactList)
    IN /\ selectedContact.truthy
       /\ selectedContact.found = <<>>
       /\ screen.view = "ContactList"

\* C14 (amended): when the contact id is missing the Contacts view takes it as the number
\* 0; 0 > 0 is false, so no filter is run, selectedContact stays false, and the list view
\* is rendered.
C14_MissingIdSkipsFilter ==
  app = "routing" /\ location = <<contacts>> =>
    LET selectedContact == SelectedContact(MatchRoutes(AppBranches, location).params,
                                           contactList)
    IN /\ ~selectedContact.truthy
       /\ screen.view = "ContactList"

\* /contacts is displayed without an exception
C14_Witness ==
  /\ app = "routing"
  /\ location = <<contacts>>
  /\ screen.thrown = "none"
  /\ screen.shell = "App"

\* C15: for every contactId that does not convert to a number the Contacts view renders
\* exactly what it renders for "/contacts", the whole list, and throws nothing.
C15_NonNumericIdRendersList ==
  app = "routing" /\ Len(location) = 2 /\ location[1] = contacts /\ ToNumber(location[2]).nan =>
    /\ screen = RenderAppRoutes(<<contacts>>, contactList)
    /\ screen.view = "ContactList"
    /\ screen.body = RenderContacts(data)
    /\ screen.thrown = "none"

\* /contacts/a is displayed
C15_Witness ==
  /\ app = "routing"
  /\ location = <<contacts, <<"a">>>>
  /\ screen.view = "ContactList"

\* C16: after any navigations and renders the contacts list is the initial three records.
C16_ContactsReadOnly ==
  app = "routing" =>
    /\ contactList = data
    /\ Len(contactList) = 3
    /\ \A k \in 1..3 : contactList[k].id = k

\* a single contact has been displayed and the list is still the initial one
C16_Witness ==
  /\ app = "routing"
  /\ location = <<contacts, <<"2">>>>
  /\ screen.view = "SingleContact"
  /\ Len(contactList) = 3

\* C17: in each application the route table, and in the Pokemon App the router that owns
\* the navigation state, is constructed exactly once at startup and never again, whatever
\* renders and navigations follow.
C17_BuiltOnce == built = 1

\* C18: every navigation to /pokemons starts exactly one new invocation of dataLoader, with
\* one fetch, and no other step starts one; loader data is taken only from the invocation
\* of the latest navigation, and a navigation to another route drops it.
C18_NoCrossNavigationCache ==
  [][ app = "pokemon" =>
        /\ navSeq' = navSeq + 1 /\ lastTarget' = <<pokemons>> =>
             /\ Len(calls') = Len(calls) + 1
             /\ SubSeq(calls', 1, Len(calls)) = calls
             /\ calls'[Len(calls')] = NewCall(navSeq')
        /\ navSeq' = navSeq + 1 /\ lastTarget' # <<pokemons>> =>
             /\ calls' = calls
             /\ loaderData' = NoData
             /\ dataNav' = 0
        /\ navSeq' = navSeq => Len(calls') = Len(calls)
        /\ dataNav' # dataNav /\ dataNav' # 0 =>
             /\ dataNav' = navSeq'
             /\ \E i \in 1..Len(calls) :
                  /\ calls[i].nav = navSeq
                  /\ calls[i].pc # "done"
                  /\ calls'[i].applied = "committed"
    ]_vars

\* /pokemons was entered twice and each entry's own invocation delivered the data
C18_Witness ==
  /\ app = "pokemon"
  /\ \E i, j \in 1..Len(calls) :
       /\ i < j
       /\ calls[i].applied = "committed"
       /\ calls[j].applied = "committed"
       /\ dataNav = calls[j].nav

\* every invocation of dataLoader has settled
AllSettled == \A i \in 1..Len(calls) : calls[i].pc = "done"

\* C19: navigations are taken in the order they are issued, and once all of them are
\* processed, every loader settled, the committed location, the active route chain and the
\* display are those of the last navigation issued.
C19_LastNavigationWins ==
  /\ app = "routing" =>
       /\ location = lastTarget
       /\ screen = RenderAppRoutes(lastTarget, contactList)
  /\ app = "pokemon" =>
       /\ \A i, j \in 1..Len(calls) : i < j => calls[i].nav < calls[j].nav
       /\ \A i \in 1..Len(calls) : calls[i].nav <= navSeq
       /\ AllSettled =>
            /\ location = lastTarget
            /\ navigation = IdleNavigation
            /\ dataNav \in {0, navSeq}
            /\ screen = RenderRouterProvider(TRUE, lastTarget, "idle", loaderData, routeError)
            /\ screen.thrown = "none" /\ screen.view # "ErrorElement" =>
                 /\ screen.shell = "Root"
                 /\ screen.view \in
                      IF MatchRoutes(PokemonBranches, lastTarget).element = "Pokemons"
                      THEN {"PokemonList"}
                      ELSE {MatchRoutes(PokemonBranches, lastTarget).element}

\* three navigations were issued, the loader of a superseded one settled after the last
\* navigation, and all loaders have settled
C19_Witness ==
  /\ app = "pokemon"
  /\ navSeq = 3
  /\ Len(calls) >= 2
  /\ AllSettled
  /\ \E i \in 1..Len(calls) : calls[i].applied = "discarded"
  /\ location = lastTarget

\* the branches that match path and rank before every other branch that matches it
Winners(branches, path) ==
  { i \in 1..Len(branches) :
      /\ MatchesPattern(branches[i].path, path)
      /\ \A j \in 1..Len(branches) :
           j # i /\ MatchesPattern(branches[j].path, path) =>
             RanksBefore(branches[i], branches[j]) }

\* the match of path in the ranked branches is one leaf, the single winner among the
\* branches that match, under the given root
OneLeaf(branches, path, root, leaves) ==
  LET m == MatchRoutes(branches, path)
  IN /\ m.matched
     /\ m.element \in leaves
     /\ m.chain = root \o <<m.element>>
     /\ Cardinality(Winners(branches, path)) = 1
     /\ \A i \in Winners(branches, path) :
          branches[i].leaf /\ branches[i].element = m.element

\* C20: for every path and each route table the matcher yields exactly one leaf, never none
\* and never two, and what is displayed at a location is the render of that leaf whatever
\* navigations and loader outcomes came before.
C20_MatcherTotal ==
  /\ app = "routing" =>
       /\ \A path \in {location, lastTarget} :
            OneLeaf(AppBranches, path, <<>>, {"Home", "About", "Contact", "Contacts", "Error404"})
       /\ screen.thrown = "none" =>
            screen.view \in
              IF MatchRoutes(AppBranches, location).element = "Contacts"
              THEN {"ContactList", "SingleContact"}
              ELSE {MatchRoutes(AppBranches, location).element}
  /\ app = "pokemon" =>
       /\ \A path \in {location, lastTarget} :
            OneLeaf(PokemonBranches, path, <<"Root">>, {"Home", "About", "Pokemons", "Error404"})
       /\ screen.shell = "Root" =>
            screen.view \in
              IF MatchRoutes(PokemonBranches, location).element = "Pokemons"
              THEN {"PokemonList", "Loading"}
              ELSE {MatchRoutes(PokemonBranches, location).element}

\* the Pokemon App displays Error404 for /pokemons/extra after two navigations
C20_Witness ==
  /\ app = "pokemon"
  /\ location = <<pokemons, extra>>
  /\ screen.view = "Error404"
  /\ navSeq = 3

\* what a sibling route matches by: a wildcard, a parameter, or literal segments only
Kind(route) ==
  IF \E i \in 1..Len(route.path) : route.path[i].k = "splat" THEN "wildcard"
  ELSE IF \E i \in 1..Len(route.path) : route.path[i].k = "param" THEN "param"
  ELSE "literal"

KindRank(route) ==
  CASE Kind(route) = "literal" -> 1
    [] Kind(route) = "param" -> 2
    [] Kind(route) = "wildcard" -> 3

\* C21: among the sibling routes that match the whole path a literal route is selected
\* before a parameter route and a parameter route before the wildcard, so Error404 is
\* selected only when nothing else matches, and the selection is the same in whatever
\* order the routes are declared; "/about" selects About, "/contacts/5" the contactId route.
C21_MatchPriority ==
  app = "matcher" =>
    LET kids == declared.children
        ms == {i \in 1..Len(kids) : MatchesPattern(kids[i].path, probe)}
    IN /\ probeMatch.matched
       /\ \E i \in ms :
            /\ kids[i].element = probeMatch.element
            /\ probeMatch.params = BoundParams(kids[i].path, probe)
            /\ \A j \in ms : KindRank(kids[i]) <= KindRank(kids[j])
       /\ probeMatch.element = "Error404" => \A j \in ms : Kind(kids[j]) = "wildcard"
       /\ probeMatch = MatchRoutes(IF declared.root = "none" THEN AppBranches
                                ELSE PokemonBranches, probe)
       /\ probe = <<about>> => probeMatch.element = "About"
       /\ probe = <<contacts, <<"5">>>> /\ declared.root = "none" =>
            /\ probeMatch.element = "Contacts"
            /\ probeMatch.params = [contactId |-> <<"5">>]

\* "/contacts/5" is matched in a table that declares the wildcard first and the contactId
\* route before "/contacts"
C21_Witness ==
  /\ app = "matcher"
  /\ declared.root = "none"
  /\ declared.children[1].element = "Error404"
  /\ Kind(declared.children[2]) = "param"
  /\ probe = <<contacts, <<"5">>>>
  /\ probeMatch.element = "Contacts"

\* the links of the navigation menu on display: those of Root when Root is mounted
MenuShown == IF screen.shell = "Root" THEN RootMenu ELSE <<>>

\* C22: in the Pokemon App, for every path, the matched chain is Root and one leaf, the
\* leaf is mounted in the <Outlet /> of Root and the menu with the links "/", "/about" and
\* "/pokemons" is displayed; in the Routing App every leaf is rendered inside the App shell.
C22_SharedLayoutShell ==
  /\ app = "pokemon" =>
       LET m == MatchRoutes(PokemonBranches, location)
       IN /\ m.chain = <<"Root", m.element>>
          /\ m.element \in {"Home", "About", "Pokemons", "Error404"}
          /\ screen.shell = "Root"
          /\ MenuShown = << <<>>, <<about>>, <<pokemons>> >>
          /\ screen.view \in IF m.element = "Pokemons" THEN {"PokemonList", "Loading"}
                              ELSE {m.element}
  /\ app = "routing" =>
       /\ screen.shell = "App"
       /\ screen.view \in IF MatchRoutes(AppBranches, location).element = "Contacts"
                           THEN {"ContactList", "SingleContact"}
                           ELSE {MatchRoutes(AppBranches, location).element}

\* C23: in each of the two route tables the sibling list has at most one wildcard route,
\* and the matcher tries it after every literal and parameter sibling, wherever it is
\* declared.
C23_WildcardLast ==
  app = "matcher" =>
    /\ Cardinality({i \in 1..Len(declared.children) :
                      Kind(declared.children[i]) = "wildcard"}) <= 1
    /\ Len(rankedBranches) >= Len(declared.children)
    /\ \A i, j \in 1..Len(rankedBranches) :
         Kind(rankedBranches[i]) = "wildcard" /\ j # i => j < i
    /\ Kind(AppRoutes.children[Len(AppRoutes.children)]) = "wildcard"
    /\ Kind(PokemonRoutes.children[Len(PokemonRoutes.children)]) = "wildcard"

\* the table of the Pokemon App with its wildcard declared first: the wildcard is ranked
\* last and matches /nope
C23_Witness ==
  /\ app = "matcher"
  /\ declared.root = "Root"
  /\ Kind(declared.children[1]) = "wildcard"
  /\ Kind(rankedBranches[Len(rankedBranches)]) = "wildcard"
  /\ probe = <<nope>>
  /\ probeMatch.element = "Error404"

\* C24: when the response is 2xx and its body parses to an object whose "results" is an
\* array, the loader fulfils with exactly that array, the same elements in the same order,
\* and with nothing else; it is what the route gets as loader data.
C24_SuccessValue ==
  app = "pokemon" =>
    \A i \in 1..Len(calls) :
      Current(i) /\ Ok(calls[i].status) /\ calls[i].body = "object"
        /\ parsedResults.k = "array" =>
          /\ calls[i].promise = "fulfilled"
          /\ calls[i].result = "array"
          /\ calls[i].logged = <<>>
          /\ calls[i].applied = "committed"
          /\ loaderData.k = "array"
          /\ Len(loaderData.v) = Len(parsedResults.v)
          /\ \A k \in 1..Len(parsedResults.v) : loaderData.v[k] = parsedResults.v[k]
          /\ routeError = NoError

\* the body listed ivysaur before bulbasaur and the loader data lists them so
C24_Witness ==
  /\ app = "pokemon"
  /\ parsedResults.k = "array"
  /\ Len(parsedResults.v) = 2
  /\ parsedResults.v[1].name = ivysaur
  /\ parsedResults.v[2].name = bulbasaur
  /\ loaderData = parsedResults

\* C25: the list view of Contacts shows exactly one link per contact record, to
\* /contacts/<id of the record>, and activating a link leads to the single-contact view of
\* exactly the record the link belongs to.
C25_LinksRoundTrip ==
  [][ app = "routing" /\ screen.view = "ContactList" =>
        /\ Len(screen.body) = Len(contactList)
        /\ \A k \in 1..Len(contactList) :
             /\ screen.body[k].to = <<contacts, NumberToString(contactList[k].id)>>
             /\ screen.body[k].text = contactList[k].name
             /\ location' = screen.body[k].to =>
                  screen' = [shell |-> "App", view |-> "SingleContact", thrown |-> "none",
                             body |-> <<contactList[k].name, contactList[k].email,
                                        contactList[k].phone>>]
    ]_vars

\* the first contact is displayed, its path being that of the first link of the list
C25_Witness ==
  /\ app = "routing"
  /\ location = RenderContacts(data)[1].to
  /\ screen.view = "SingleContact"
  /\ screen.body[1] = data[1].name

\* what Contacts displays for a contactId when only its numeric value n counts: the list
\* when n is not greater than 0, else the contact whose id equals n, or the exception of
\* the render when no id equals n
RenderingOfNumber(n) ==
  IF n.nan \/ n.val <= 0
  THEN [shell |-> "App", view |-> "ContactList", body |-> RenderContacts(data),
        thrown |-> "none"]
  ELSE IF \E k \in 1..Len(data) : data[k].id * Scale = n.val
  THEN LET k == CHOOSE k \in 1..Len(data) : data[k].id * Scale = n.val
       IN [shell |-> "App", view |-> "SingleContact",
           body |-> <<data[k].name, data[k].email, data[k].phone>>, thrown |-> "none"]
  ELSE [shell |-> "none", view |-> "none", body |-> <<>>, thrown |-> "TypeError"]

\* C26: Contacts enters the single-contact mode if and only if the contactId string
\* converts to a number greater than 0, and then selects the records whose id equals that
\* number; what is displayed depends on the number alone, so "1", "01" and "1.0" give the
\* same display, and a contactId that converts to 0 or to a negative number gives the list.
C26_NumericValueOnly ==
  app = "routing" /\ Len(location) = 2 /\ location[1] = contacts =>
    LET n == ToNumber(location[2])
        selectedContact == SelectedContact(MatchRoutes(AppBranches, location).params,
                                           contactList)
    IN /\ selectedContact.truthy <=> (~n.nan /\ n.val > 0)
       /\ selectedContact.truthy =>
            selectedContact.found = SelectSeq(contactList, LAMBDA c : c.id * Scale = n.val)
       /\ screen.view = "ContactList" <=> ~(~n.nan /\ n.val > 0)
       /\ screen = RenderingOfNumber(n)

\* /contacts/01 displays the contact with id 1
C26_Witness ==
  /\ app = "routing"
  /\ location = <<contacts, <<"0", "1">>>>
  /\ screen.view = "SingleContact"
  /\ screen.body = <<data[1].name, data[1].email, data[1].phone>>

\* C27: when it is not loading and the loader result is an array, Pokemons renders exactly
\* one entry per element, in the order of the array, the entry of the element at 0-based
\* position i being numbered i + 1 and showing the element's name and a link to its url.
C27_ListRendering ==
  app = "pokemon" /\ location = <<pokemons>> /\ navigation.state = "idle"
    /\ loaderData.k = "array" =>
      /\ screen.shell = "Root"
      /\ screen.view = "PokemonList"
      /\ Len(screen.body) = Len(loaderData.v)
      /\ \A k \in 1..Len(loaderData.v) :
           /\ screen.body[k].number = (k - 1) + 1
           /\ screen.body[k].name = loaderData.v[k].name
           /\ screen.body[k].href = loaderData.v[k].url

\* a list of two entries is displayed, the second one numbered 2
C27_Witness ==
  /\ app = "pokemon"
  /\ screen.view = "PokemonList"
  /\ Len(screen.body) = 2
  /\ screen.body[2].number = 2
  /\ screen.body[2].name = loaderData.v[2].name
  /\ screen.body[1].name # screen.body[2].name

\* a piece that is the decimal id of a pokemon
IsId(piece) == piece \in {"1", "25"}

\* C28: the image source is the piece of pokemon.url before its last "/", followed by
\* ".png"; for a url that ends with "/<id>/" that piece is the id, and for a url without
\* the trailing slash, whose id is the last piece, it is the piece before the id.
C28_SpriteSegment ==
  app = "sprite" =>
    LET n == Len(pokemonUrl)
    IN /\ imgSrc.dir = imgUrl
       /\ imgSrc.ext = ".png"
       /\ imgSrc.name = pokemonUrl[n - 1]
       /\ pokemonUrl[n] = "" /\ IsId(pokemonUrl[n - 1]) => IsId(imgSrc.name)
       /\ pokemonUrl[n] # "" /\ IsId(pokemonUrl[n]) =>
            /\ imgSrc.name = pokemonUrl[n - 1]
            /\ imgSrc.name = pokemonUrl[n] <=> pokemonUrl[n - 1] = pokemonUrl[n]

\* the url https://pokeapi.co/api/v2/pokemon/25 gives the image "pokemon.png"
C28_Witness ==
  /\ app = "sprite"
  /\ Len(pokemonUrl) = 7
  /\ pokemonUrl[7] = "25"
  /\ imgSrc.name = "pokemon"

RECURSIVE Without(_, _)
\* the notes of list whose id is not id, in their order
Without(list, id) ==
  IF Len(list) = 0 THEN <<>>
  ELSE IF Head(list).id = id THEN Without(Tail(list), id)
       ELSE <<Head(list)>> \o Without(Tail(list), id)

\* C29: ADD appends exactly one note with the payload as content and keeps the existing
\* notes in order; DELETE removes exactly the notes whose id is payload.id and keeps the
\* others in order; UPDATE replaces exactly the notes whose id is the payload's id and keeps
\* length and order; any other action type leaves the state as it is.
C29_NotesReducer ==
  [][ app = "notes" =>
        /\ dispatched'.type = "ADD" =>
             /\ Len(notes') = Len(notes) + 1
             /\ SubSeq(notes', 1, Len(notes)) = notes
             /\ notes'[Len(notes')].content = dispatched'.payload
             /\ notes'[Len(notes')].id \in RandomIds
        /\ dispatched'.type = "DELETE" =>
             /\ notes' = Without(notes, dispatched'.payload.id)
             /\ \A i \in 1..Len(notes') : notes'[i].id # dispatched'.payload.id
        /\ dispatched'.type = "UPDATE" =>
             /\ Len(notes') = Len(notes)
             /\ \A i \in 1..Len(notes) :
                  notes'[i] = IF notes[i].id = dispatched'.payload.id
                              THEN dispatched'.payload ELSE notes[i]
        /\ dispatched'.type \notin {"ADD", "DELETE", "UPDATE"} => notes' = notes
    ]_vars

\* an UPDATE has replaced the first of two notes and left the second
C29_Witness ==
  /\ app = "notes"
  /\ dispatched.type = "UPDATE"
  /\ Len(notes) = 2
  /\ notes[1] = dispatched.payload
  /\ notes[2].id # dispatched.payload.id

====
